---- MODULE Spec2Model ----
(***************************************************************************)
(* Bernstein-Vazirani demo (src/.py): the menu loop of interactive_mode,   *)
(* the circuit built by create_oracle / bernstein_vazirani_circuit, its    *)
(* ideal state-vector simulation (the AerSimulator call of                 *)
(* simulate_circuit) and the reduction of the counts in                    *)
(* run_bernstein_vazirani.                                                 *)
(*                                                                         *)
(* Strings are sequences of one-character strings.  A basis state of the   *)
(* register is a number b, qubit i being bit i of b; the amplitude vector  *)
(* psi holds integers, the amplitude of b being psi[b+1] / sqrt(2)^hcount, *)
(* so that every amplitude of a circuit of X, H and CX gates is exact.     *)
(***************************************************************************)
EXTENDS Integers, Sequences, FiniteSets

\* ---------------------------------------------------------------- bounds
\* Longest string typed at the "binary string" prompt, and largest length
\* typed at the "string length" prompt.
MaxLen == 2
\* Longest string typed at a numeric prompt.
MaxDigits == 1
\* AggSpec: most keys of a counts mapping, and largest count of one key.
MaxKeys == 2
MaxCount == 2

\* ------------------------------------------------------ program constants
DefaultShots == 1024
DefaultLength == 6

\* Characters a user types: binary digits, another digit, a non-digit.
Chars == {"0", "1", "2", "x"}
Digits == {"0", "1", "2"}

RECURSIVE StringsOfLen(_, _)
StringsOfLen(S, k) ==
    IF k = 0 THEN {<<>>}
    ELSE {Append(s, c) : s \in StringsOfLen(S, k - 1), c \in S}

StringsUpTo(S, k) == UNION {StringsOfLen(S, j) : j \in 0..k}

\* ------------------------------------------------------- string functions
\* str.isdigit(): non-empty and every character a digit.
isdigit(s) == Len(s) > 0 /\ \A j \in 1..Len(s) : s[j] \in Digits

DigitVal(c) == CASE c = "0" -> 0 [] c = "1" -> 1 [] c = "2" -> 2 [] OTHER -> 0

\* int(s) of a digit string, most significant digit first.
RECURSIVE int(_)
int(s) ==
    IF Len(s) = 0 THEN 0
    ELSE 10 * int(SubSeq(s, 1, Len(s) - 1)) + DigitVal(s[Len(s)])

\* all(c in '01' for c in s) and len(s) > 0
validate_binary_string(s) ==
    (\A j \in 1..Len(s) : s[j] \in {"0", "1"}) /\ Len(s) > 0

\* reversed(s)
reversed(s) == [j \in 1..Len(s) |-> s[Len(s) + 1 - j]]

\* ------------------------------------------------------------ the circuit
\* One instruction of a circuit: its operation, the qubits and the
\* classical bits it acts on.
Instr(op, qs, cs) == [op |-> op, qubits |-> qs, clbits |-> cs]
XGate(t) == Instr("x", <<t>>, <<>>)
HGate(t) == Instr("h", <<t>>, <<>>)
CXGate(c, t) == Instr("cx", <<c, t>>, <<>>)
Measure(q, c) == Instr("measure", <<q>>, <<c>>)
Barrier(n) == Instr("barrier", [j \in 1..n |-> j - 1], <<>>)

\* QuantumCircuit(nq, nc)
QuantumCircuit(nq, nc) == [num_qubits |-> nq, num_clbits |-> nc, data |-> <<>>]

NoCircuit == QuantumCircuit(0, 0)

\* circuit.append of a sequence of instructions
Extend(circ, instrs) == [circ EXCEPT !.data = @ \o instrs]

\* Faulty variants of create_oracle: the secret not reversed, a CX for the
\* '0' characters instead of the '1's, and the control off by one.
RECURSIVE oracle_loop_noreverse(_, _)
oracle_loop_noreverse(s, i) ==
    IF i >= Len(s) THEN <<>>
    ELSE (IF s[i + 1] = "1" THEN <<CXGate(i, Len(s))>> ELSE <<>>)
         \o oracle_loop_noreverse(s, i + 1)

create_oracle_noreverse(secret_string) ==
    Extend(QuantumCircuit(Len(secret_string) + 1, 0),
           oracle_loop_noreverse(secret_string, 0))

RECURSIVE oracle_loop_zero_bits(_, _)
oracle_loop_zero_bits(s, i) ==
    IF i >= Len(s) THEN <<>>
    ELSE (IF reversed(s)[i + 1] = "0" THEN <<CXGate(i, Len(s))>> ELSE <<>>)
         \o oracle_loop_zero_bits(s, i + 1)

create_oracle_zero_bits(secret_string) ==
    Extend(QuantumCircuit(Len(secret_string) + 1, 0),
           oracle_loop_zero_bits(secret_string, 0))

RECURSIVE oracle_loop_off_by_one(_, _)
oracle_loop_off_by_one(s, i) ==
    IF i >= Len(s) THEN <<>>
    ELSE (IF reversed(s)[i + 1] = "1" THEN <<CXGate(i + 1, Len(s))>> ELSE <<>>)
         \o oracle_loop_off_by_one(s, i + 1)

create_oracle_off_by_one(secret_string) ==
    Extend(QuantumCircuit(Len(secret_string) + 1, 0),
           oracle_loop_off_by_one(secret_string, 0))

\* The loop of create_oracle from iteration i on:
\*   for i, bit in enumerate(reversed(secret_string)):
\*       if bit == '1': oracle.cx(i, n)
RECURSIVE oracle_loop(_, _)
oracle_loop(s, i) ==
    IF i >= Len(s) THEN <<>>
    ELSE (IF reversed(s)[i + 1] = "1" THEN <<CXGate(i, Len(s))>> ELSE <<>>)
         \o oracle_loop(s, i + 1)

create_oracle(secret_string) ==
    Extend(QuantumCircuit(Len(secret_string) + 1, 0),
           oracle_loop(secret_string, 0))

\* circuit.compose(other, qubits=qubits, inplace=True): the instructions of
\* other, qubit j of other placed on qubit qubits[j] of circuit.
compose(circ, other, qubits) ==
    Extend(circ,
           [k \in 1..Len(other.data) |->
               [other.data[k] EXCEPT
                   !.qubits = [j \in 1..Len(@) |-> qubits[@[j] + 1]]]])

\* list(range(m))
range(m) == [j \in 1..m |-> j - 1]

\* circuit.h(qr): a Hadamard on each qubit of the data register, in order.
HLayer(n) == [j \in 1..n |-> HGate(j - 1)]

\* circuit.measure(qr, cr): qubit i into classical bit i, in order.
MeasureLayer(n) == [j \in 1..n |-> Measure(j - 1, j - 1)]

\* Faulty variants of bernstein_vazirani_circuit: the X of the auxiliary
\* qubit left out, and the H of the auxiliary qubit put before its X.
bernstein_vazirani_circuit_noX(secret_string) ==
    LET n == Len(secret_string)
        c1 == Extend(QuantumCircuit(n + 1, n), <<HGate(n)>>)
        c2 == Extend(c1, HLayer(n))
        c3 == Extend(c2, <<Barrier(n + 1)>>)
        c4 == compose(c3, create_oracle(secret_string), range(n + 1))
        c5 == Extend(c4, <<Barrier(n + 1)>>)
        c6 == Extend(c5, HLayer(n))
    IN  Extend(c6, MeasureLayer(n))

bernstein_vazirani_circuit_h_before_x(secret_string) ==
    LET n == Len(secret_string)
        c1 == Extend(QuantumCircuit(n + 1, n), <<HGate(n), XGate(n)>>)
        c2 == Extend(c1, HLayer(n))
        c3 == Extend(c2, <<Barrier(n + 1)>>)
        c4 == compose(c3, create_oracle(secret_string), range(n + 1))
        c5 == Extend(c4, <<Barrier(n + 1)>>)
        c6 == Extend(c5, HLayer(n))
    IN  Extend(c6, MeasureLayer(n))

\* qr = qubits 0..n-1, auxiliary = qubit n, cr = classical bits 0..n-1.
bernstein_vazirani_circuit(secret_string) ==
    LET n == Len(secret_string)
        c1 == Extend(QuantumCircuit(n + 1, n), <<XGate(n), HGate(n)>>)
        c2 == Extend(c1, HLayer(n))
        c3 == Extend(c2, <<Barrier(n + 1)>>)
        c4 == compose(c3, create_oracle(secret_string), range(n + 1))
        c5 == Extend(c4, <<Barrier(n + 1)>>)
        c6 == Extend(c5, HLayer(n))
    IN  Extend(c6, MeasureLayer(n))

\* ------------------------------------------------- the state-vector engine
RECURSIVE Pow2(_)
Pow2(i) == IF i = 0 THEN 1 ELSE 2 * Pow2(i - 1)

\* Bit i of the basis state b, and b with bit i flipped.
Bit(b, i) == (b \div Pow2(i)) % 2
Flip(b, i) == IF Bit(b, i) = 0 THEN b + Pow2(i) ELSE b - Pow2(i)

\* |0...0> on nq qubits: amplitude 1 at basis state 0.
ZeroState(nq) == [k \in 1..Pow2(nq) |-> IF k = 1 THEN 1 ELSE 0]

\* PauliX(t): the amplitudes of b and of b with bit t flipped change places.
ApplyX(v, t) == [k \in 1..Len(v) |-> v[Flip(k - 1, t) + 1]]

\* A faulty Hadamard, updating the vector in place and reading the amplitude it has
\* just overwritten: the second amplitude of a pair becomes (a0 + a1) - a1.
ApplyH_in_place(v, t) ==
    [k \in 1..Len(v) |->
        IF Bit(k - 1, t) = 0 THEN v[k] + v[Flip(k - 1, t) + 1]
        ELSE (v[Flip(k - 1, t) + 1] + v[k]) - v[k]]

\* Hadamard(t): the pair (a0, a1) becomes (a0 + a1, a0 - a1), the factor
\* 1/sqrt(2) being counted in hcount.
ApplyH(v, t) ==
    [k \in 1..Len(v) |->
        IF Bit(k - 1, t) = 0 THEN v[k] + v[Flip(k - 1, t) + 1]
        ELSE v[Flip(k - 1, t) + 1] - v[k]]

\* ControlledNot(c, t): where bit c is 1, the amplitudes of b and of b with
\* bit t flipped change places.
ApplyCX(v, c, t) ==
    [k \in 1..Len(v) |->
        IF Bit(k - 1, c) = 1 THEN v[Flip(k - 1, t) + 1] ELSE v[k]]

\* The vector after one instruction; a barrier and a final measurement leave
\* it as it is.
ApplyInstr(v, g) ==
    CASE g.op = "x" -> ApplyX(v, g.qubits[1])
      [] g.op = "h" -> ApplyH(v, g.qubits[1])
      [] g.op = "cx" -> ApplyCX(v, g.qubits[1], g.qubits[2])
      [] OTHER -> v

\* The number of Hadamards applied after one instruction.
CountH(h, g) == IF g.op = "h" THEN h + 1 ELSE h

\* The classical-bit map after one instruction: a measurement writes its
\* qubit into its classical bit (-1: nothing written, the bit reads 0).
ApplyMeasure(m, g) ==
    IF g.op = "measure" THEN [m EXCEPT ![g.clbits[1] + 1] = g.qubits[1]] ELSE m

\* The sum of the squared amplitudes v[lo..hi], by halves.
RECURSIVE SumSqRange(_, _, _)
SumSqRange(v, lo, hi) ==
    IF lo > hi THEN 0
    ELSE IF lo = hi THEN v[lo] * v[lo]
    ELSE LET mid == (lo + hi) \div 2
         IN  SumSqRange(v, lo, mid) + SumSqRange(v, mid + 1, hi)

\* The probability mass of the vector v, times 2^hcount.
SumSq(v) == SumSqRange(v, 1, Len(v))

\* The classical outcome basis state b gives under the map m, bits c and
\* above: classical bit c reads qubit m[c+1] of b.
RECURSIVE OutcomeOf(_, _, _)
OutcomeOf(b, m, c) ==
    IF c >= Len(m) THEN 0
    ELSE (IF m[c + 1] < 0 THEN 0 ELSE Bit(b, m[c + 1]) * Pow2(c))
         + OutcomeOf(b, m, c + 1)

\* Two lists of items <<outcome, weight>> in increasing order of outcome
\* merged into one, the weights of a common outcome added.
RECURSIVE MergeWeights(_, _)
MergeWeights(a, b) ==
    IF a = <<>> THEN b
    ELSE IF b = <<>> THEN a
    ELSE IF a[1][1] < b[1][1] THEN <<a[1]>> \o MergeWeights(Tail(a), b)
    ELSE IF b[1][1] < a[1][1] THEN <<b[1]>> \o MergeWeights(a, Tail(b))
    ELSE << <<a[1][1], a[1][2] + b[1][2]>> >> \o MergeWeights(Tail(a), Tail(b))

\* The Born weights of the outcomes: for each outcome that a basis state
\* among lo-1..hi-1 of non-zero amplitude gives, the sum of the squared
\* amplitudes of the basis states that give it, the unmeasured qubits
\* summed over (the range is summed by halves).
RECURSIVE Weights(_, _, _, _)
Weights(v, m, lo, hi) ==
    IF lo = hi
    THEN (IF v[lo] = 0 THEN <<>>
          ELSE << <<OutcomeOf(lo - 1, m, 0), v[lo] * v[lo]>> >>)
    ELSE LET mid == (lo + hi) \div 2
         IN  MergeWeights(Weights(v, m, lo, mid), Weights(v, m, mid + 1, hi))

\* The key of outcome o in the counts: one character per classical bit, bit
\* 0 the rightmost.
FormatOutcome(o, nc) == [j \in 1..nc |-> IF Bit(o, nc - j) = 1 THEN "1" ELSE "0"]

\* The outcome distribution over the classical register: the items
\* <<key, weight>> of the outcomes of non-zero probability in increasing
\* order of outcome, the weight being the probability times 2^hcount.
FormatWeights(w, nc) ==
    [k \in 1..Len(w) |-> <<FormatOutcome(w[k][1], nc), w[k][2]>>]

Distribution(v, m) == FormatWeights(Weights(v, m, 1, Len(v)), Len(m))

\* ------------------------------------------------------------- the counts
\* A counts mapping is the sequence of its items <<key, count>> in the
\* order of the dict.
Keys(cs) == {cs[k][1] : k \in 1..Len(cs)}

CountOf(cs, key) ==
    IF key \in Keys(cs)
    THEN cs[CHOOSE k \in 1..Len(cs) : cs[k][1] = key][2]
    ELSE 0

RECURSIVE Total(_, _)
Total(cs, k) == IF k = 0 THEN 0 ELSE cs[k][2] + Total(cs, k - 1)

\* counts after one more shot observed key.
AddShot(cs, key) ==
    IF key \in Keys(cs)
    THEN [k \in 1..Len(cs) |->
             IF cs[k][1] = key THEN <<key, cs[k][2] + 1>> ELSE cs[k]]
    ELSE Append(cs, <<key, 1>>)

\* A faulty variant of simulate_circuit_shots: the shots argument not
\* handed on, the simulator running its default.
simulate_circuit_default_shots(sh) == DefaultShots

\* simulator.run(circuit, shots=shots): the number of shots the simulator
\* is asked for.
simulate_circuit_shots(sh) == sh

\* sorted(counts.items(), key=lambda x: x[1], reverse=True): a stable sort,
\* items of equal count keeping the order of the dict.
RECURSIVE InsertDescending(_, _)
InsertDescending(item, sorted) ==
    IF sorted = <<>> THEN <<item>>
    ELSE IF sorted[1][2] > item[2]
         THEN <<sorted[1]>> \o InsertDescending(item, Tail(sorted))
         ELSE <<item>> \o sorted

RECURSIVE SortDescending(_, _)
SortDescending(cs, k) ==
    IF k > Len(cs) THEN <<>>
    ELSE InsertDescending(cs[k], SortDescending(cs, k + 1))

sorted_by_count(cs) == SortDescending(cs, 1)

\* A faulty variant of max_by_count: the last key of the dict.
max_by_count_last(cs) == cs[Len(cs)][1]

\* max(counts, key=counts.get): the first key of the dict whose count no
\* other key's count exceeds.
max_by_count(cs) ==
    cs[CHOOSE k \in 1..Len(cs) :
          /\ \A j \in 1..Len(cs) : cs[j][2] <= cs[k][2]
          /\ \A j \in 1..(k - 1) : cs[j][2] < cs[k][2]][1]

\* -------------------------------------------------------------- the state
VARIABLES
    pc,             \* where the program is: "menu", "run", "built", "gates",
                    \* "sampling", "aggregate", "report", "exited", "error"
    choice,         \* interactive_mode: the last menu choice typed
    secret,         \* the secret string of the current branch
    shots,          \* the shot count of the current branch
    demo_idx,       \* choice 3: the example being run (0: none)
    circuit,        \* run_bernstein_vazirani: the circuit built
    ip,             \* the simulator: the next instruction of circuit.data
    psi,            \* the simulator: the amplitude vector
    hcount,         \* the simulator: the Hadamards applied so far
    meas,           \* the simulator: classical bit c+1 reads qubit meas[c+1]
    sim_shots,      \* the simulator: the shots asked for
    dist,           \* the simulator: the outcome distribution
    shot,           \* the simulator: the shots drawn so far
    counts,         \* run_bernstein_vazirani: the counts returned
    sorted_counts,  \* run_bernstein_vazirani: the items by descending count
    found_string,   \* run_bernstein_vazirani: the key of largest count
    success         \* run_bernstein_vazirani: found_string == secret_string

vars == <<pc, choice, secret, shots, demo_idx, circuit, ip, psi, hcount, meas,
          sim_shots, dist, shot, counts, sorted_counts, found_string, success>>

\* The locals of run_bernstein_vazirani and of the simulator.
runvars == <<circuit, ip, psi, hcount, meas, sim_shots, dist, shot, counts,
             sorted_counts, found_string, success>>

simvars == <<ip, psi, hcount, meas, sim_shots, dist, shot>>

\* examples = ['101', '1111', '10101010', '11001100']
examples ==
    << <<"1", "0", "1">>,
       <<"1", "1", "1", "1">>,
       <<"1", "0", "1", "0", "1", "0", "1", "0">>,
       <<"1", "1", "0", "0", "1", "1", "0", "0">> >>

\* run_bernstein_vazirani(secret, show_circuit=False, shots=1024)
DemoShots == 1024

BitStrings(n) == StringsOfLen({"0", "1"}, n)

\* What is typed at the prompts.
SecretInputs == StringsUpTo(Chars, MaxLen)
ShotsInputs == StringsUpTo(Chars, MaxDigits)
LengthInputs == {s \in StringsUpTo(Chars, MaxDigits) : isdigit(s) => int(s) <= MaxLen}

\* shots = int(shots) if shots.isdigit() else 1024
parse_shots(s) == IF isdigit(s) THEN int(s) ELSE DefaultShots

\* length = int(length) if length.isdigit() and int(length) > 0 else 6
parse_length(s) == IF isdigit(s) /\ int(s) > 0 THEN int(s) ELSE DefaultLength

\* No run in progress: the locals of run_bernstein_vazirani hold nothing.
NoRun ==
    /\ circuit = NoCircuit
    /\ ip = 0
    /\ psi = <<>>
    /\ hcount = 0
    /\ meas = <<>>
    /\ sim_shots = 0
    /\ dist = <<>>
    /\ shot = 0
    /\ counts = <<>>
    /\ sorted_counts = <<>>
    /\ found_string = <<>>
    /\ success = FALSE

Init ==
    /\ pc = "menu"
    /\ choice = ""
    /\ secret = <<>>
    /\ shots = 0
    /\ demo_idx = 0
    /\ NoRun

\* ------------------------------------------------------- interactive_mode
\* Choice 1 with a string validate_binary_string refuses: the error line,
\* then `continue`.
ChooseCustomInvalid ==
    /\ pc = "menu"
    /\ \E s \in SecretInputs :
          /\ ~validate_binary_string(s)
          /\ secret' = s
    /\ choice' = "1"
    /\ UNCHANGED <<pc, shots, demo_idx, runvars>>

\* Choice 1 with a string validate_binary_string accepts: the shots are
\* read and run_bernstein_vazirani is called.  (show_circuit only selects
\* what is printed.)
ChooseCustom ==
    /\ pc = "menu"
    /\ \E s \in SecretInputs, sh \in ShotsInputs :
          /\ validate_binary_string(s)
          /\ secret' = s
          /\ shots' = parse_shots(sh)
    /\ choice' = "1"
    /\ pc' = "run"
    /\ UNCHANGED <<demo_idx, runvars>>

\* Choice 2: a random string of the length typed, or of the default length.
ChooseRandom ==
    /\ pc = "menu"
    /\ \E ln \in LengthInputs, sh \in ShotsInputs :
          /\ secret' \in BitStrings(parse_length(ln))
          /\ shots' = parse_shots(sh)
    /\ choice' = "2"
    /\ pc' = "run"
    /\ UNCHANGED <<demo_idx, runvars>>

\* Choice 3: the loop over the examples, entered at the first.
ChooseDemo ==
    /\ pc = "menu"
    /\ choice' = "3"
    /\ demo_idx' = 1
    /\ secret' = examples[1]
    /\ shots' = DemoShots
    /\ pc' = "run"
    /\ UNCHANGED runvars

\* Choice 4: `break`.
ChooseExit ==
    /\ pc = "menu"
    /\ choice' = "4"
    /\ pc' = "exited"
    /\ UNCHANGED <<secret, shots, demo_idx, runvars>>

\* Any other choice: the "Invalid choice" line, and the menu again.
ChooseOther ==
    /\ pc = "menu"
    /\ choice' = "other"
    /\ UNCHANGED <<pc, secret, shots, demo_idx, runvars>>

\* ------------------------------------------------- run_bernstein_vazirani
\* circuit = bernstein_vazirani_circuit(secret_string)
BuildCircuit ==
    /\ pc = "run"
    /\ circuit' = bernstein_vazirani_circuit(secret)
    /\ pc' = "built"
    /\ UNCHANGED <<choice, secret, shots, demo_idx, simvars, counts,
                   sorted_counts, found_string, success>>

\* simulate_circuit: simulator.run(circuit, shots=shots) starts from
\* |0...0> with no classical bit written.
SimulateStart ==
    /\ pc = "built"
    /\ sim_shots' = simulate_circuit_shots(shots)
    /\ psi' = ZeroState(circuit.num_qubits)
    /\ hcount' = 0
    /\ meas' = [c \in 1..circuit.num_clbits |-> -1]
    /\ ip' = 1
    /\ pc' = "gates"
    /\ UNCHANGED <<choice, secret, shots, demo_idx, circuit, dist, shot, counts,
                   sorted_counts, found_string, success>>

\* The simulator applies the next instruction of the circuit.
SimulateInstr ==
    /\ pc = "gates"
    /\ ip <= Len(circuit.data)
    /\ psi' = ApplyInstr(psi, circuit.data[ip])
    /\ hcount' = CountH(hcount, circuit.data[ip])
    /\ meas' = ApplyMeasure(meas, circuit.data[ip])
    /\ ip' = ip + 1
    /\ UNCHANGED <<pc, choice, secret, shots, demo_idx, circuit, sim_shots, dist,
                   shot, counts, sorted_counts, found_string, success>>

\* After the last instruction the outcome distribution is derived and the
\* amplitude vector is dropped.
SimulateDistribution ==
    /\ pc = "gates"
    /\ ip > Len(circuit.data)
    /\ dist' = Distribution(psi, meas)
    /\ psi' = <<>>
    /\ shot' = 0
    /\ pc' = "sampling"
    /\ UNCHANGED <<choice, secret, shots, demo_idx, circuit, ip, hcount, meas,
                   sim_shots, counts, sorted_counts, found_string, success>>

\* One shot: an outcome of the distribution is drawn and counted.
SampleShot ==
    /\ pc = "sampling"
    /\ shot < sim_shots
    /\ \E k \in 1..Len(dist) :
          counts' = AddShot(counts, dist[k][1])
    /\ shot' = shot + 1
    /\ UNCHANGED <<pc, choice, secret, shots, demo_idx, circuit, ip, psi, hcount,
                   meas, sim_shots, dist, sorted_counts, found_string, success>>

\* All shots drawn: result.get_counts() is returned and the simulator's
\* state is dropped.
SimulateReturn ==
    /\ pc = "sampling"
    /\ sim_shots >= 1
    /\ shot = sim_shots
    /\ ip' = 0
    /\ hcount' = 0
    /\ meas' = <<>>
    /\ dist' = <<>>
    /\ shot' = 0
    /\ sim_shots' = 0
    /\ pc' = "aggregate"
    /\ UNCHANGED <<choice, secret, shots, demo_idx, circuit, psi, counts,
                   sorted_counts, found_string, success>>

\* Zero shots asked for: the simulator or get_counts() raises, and main's
\* `except Exception` ends the program ...
SimulateNoShotsRaises ==
    /\ pc = "sampling"
    /\ sim_shots = 0
    /\ pc' = "error"
    /\ UNCHANGED <<choice, secret, shots, demo_idx, runvars>>

\* ... or an empty counts mapping is returned.
SimulateNoShotsEmpty ==
    /\ pc = "sampling"
    /\ sim_shots = 0
    /\ ip' = 0
    /\ hcount' = 0
    /\ meas' = <<>>
    /\ dist' = <<>>
    /\ counts' = <<>>
    /\ pc' = "aggregate"
    /\ UNCHANGED <<choice, secret, shots, demo_idx, circuit, psi, sim_shots, shot,
                   sorted_counts, found_string, success>>

\* The results: the items sorted by count, the key of largest count and
\* its comparison with the secret.
Aggregate ==
    /\ pc = "aggregate"
    /\ counts # <<>>
    /\ sorted_counts' = sorted_by_count(counts)
    /\ found_string' = max_by_count(counts)
    /\ success' = (max_by_count(counts) = secret)
    /\ pc' = "report"
    /\ UNCHANGED <<choice, secret, shots, demo_idx, circuit, simvars, counts>>

\* max() of an empty mapping raises ValueError, which main's
\* `except Exception` catches: the program ends.
AggregateEmpty ==
    /\ pc = "aggregate"
    /\ counts = <<>>
    /\ sorted_counts' = sorted_by_count(counts)
    /\ pc' = "error"
    /\ UNCHANGED <<choice, secret, shots, demo_idx, circuit, simvars, counts,
                   found_string, success>>

\* run_bernstein_vazirani returns and its locals are gone: the next example
\* of choice 3, or the menu again (secret and shots are written before they
\* are next read).
Return ==
    /\ pc = "report"
    /\ circuit' = NoCircuit
    /\ counts' = <<>>
    /\ sorted_counts' = <<>>
    /\ found_string' = <<>>
    /\ success' = FALSE
    /\ IF demo_idx \in 1..(Len(examples) - 1)
       THEN /\ demo_idx' = demo_idx + 1
            /\ secret' = examples[demo_idx + 1]
            /\ shots' = DemoShots
            /\ pc' = "run"
       ELSE /\ demo_idx' = 0
            /\ secret' = <<>>
            /\ shots' = 0
            /\ pc' = "menu"
    /\ UNCHANGED <<choice, simvars>>

Next ==
    \/ ChooseCustomInvalid
    \/ ChooseCustom
    \/ ChooseRandom
    \/ ChooseDemo
    \/ ChooseExit
    \/ ChooseOther
    \/ BuildCircuit
    \/ SimulateStart
    \/ SimulateInstr
    \/ SimulateDistribution
    \/ SampleShot
    \/ SimulateReturn
    \/ SimulateNoShotsRaises
    \/ SimulateNoShotsEmpty
    \/ Aggregate
    \/ AggregateEmpty
    \/ Return

Spec == Init /\ [][Next]_vars

\* ------------------------------ the reduction of the counts, on any counts
RECURSIVE CountsOfLen(_, _)
CountsOfLen(K, k) ==
    IF k = 0 THEN {<<>>}
    ELSE {Append(x[1], <<x[2], x[3]>>) :
             x \in {y \in CountsOfLen(K, k - 1) \X K \X (1..MaxCount) :
                       y[2] \notin Keys(y[1])}}

\* The non-empty counts mappings of at most MaxKeys keys of length n.
CountsInputs(n) == UNION {CountsOfLen(BitStrings(n), k) : k \in 1..MaxKeys}

\* run_bernstein_vazirani at line 94, the simulation of a secret of length
\* MaxLen having returned any counts.
AggInit ==
    /\ pc = "aggregate"
    /\ choice = "1"
    /\ secret \in BitStrings(MaxLen)
    /\ counts \in CountsInputs(MaxLen)
    /\ shots = Total(counts, Len(counts))
    /\ demo_idx = 0
    /\ circuit = bernstein_vazirani_circuit(secret)
    /\ ip = 0
    /\ psi = <<>>
    /\ hcount = 0
    /\ meas = <<>>
    /\ sim_shots = 0
    /\ dist = <<>>
    /\ shot = 0
    /\ sorted_counts = <<>>
    /\ found_string = <<>>
    /\ success = FALSE

AggNext == Aggregate \/ Return

AggSpec == AggInit /\ [][AggNext]_vars

\* ------------------------------------------------------------- the claims
\* run_bernstein_vazirani is running (lines 68-123).
RunPcs == {"run", "built", "gates", "sampling", "aggregate", "report"}

\* The circuit of the run has been built.
BuiltPcs == {"built", "gates", "sampling", "aggregate", "report"}

\* The instructions of a circuit that are not barriers, in order.
RECURSIVE NoBarriers(_)
NoBarriers(d) ==
    IF d = <<>> THEN <<>>
    ELSE (IF d[1].op = "barrier" THEN <<>> ELSE <<d[1]>>) \o NoBarriers(Tail(d))

\* The number of '1' characters of s.
Ones(s) == Cardinality({j \in 1..Len(s) : s[j] = "1"})

\* C1 (exact recovery): for every secret the circuit's outcome distribution
\* has the secret itself as its only outcome, with probability 1 (weight
\* 2^hcount over 2^hcount), written in the character order of the input; and
\* with shots >= 1 the string found is the secret.
C1_ExactRecovery ==
    /\ pc = "sampling" => dist = << <<secret, Pow2(hcount)>> >>
    /\ (pc = "report" /\ shots >= 1) => (found_string = secret /\ success)

\* A run on a secret that differs from its reversal has found it.
C1_Witness ==
    /\ pc = "report"
    /\ secret # reversed(secret)
    /\ shots = 1
    /\ found_string = secret

\* C2 (count conservation): the simulator never draws more shots than were
\* asked for, the counts sum to the shots drawn, and the counts returned for
\* shots >= 1 sum exactly to shots.
C2_CountConservation ==
    /\ pc = "sampling" => (shot <= shots /\ Total(counts, Len(counts)) = shot)
    /\ (pc \in {"aggregate", "report"} /\ shots >= 1)
          => Total(counts, Len(counts)) = shots

\* The counts of a run of the default 1024 shots have been returned.
C2_Witness ==
    /\ pc = "aggregate"
    /\ shots = DefaultShots
    /\ Total(counts, Len(counts)) = DefaultShots

\* C3 (rejection), as claimed: run_bernstein_vazirani never runs with
\* shots = 0 or with a secret validate_binary_string refuses.
C3_Rejection ==
    pc \in RunPcs => (validate_binary_string(secret) /\ shots >= 1)

\* C4 (oracle mapping): create_oracle(s) holds one CX(i, n) for each i whose
\* character s[n-1-i] (index 0 being the last character) is '1' and nothing
\* else, in increasing order of i; none for an all-zero secret, and
\* CX(0,3), CX(2,3) for "101".
C4_OracleMapping ==
    pc \in RunPcs =>
        LET n == Len(secret)
            o == create_oracle(secret).data
        IN  /\ Len(o) = Ones(secret)
            /\ \A k \in 1..Len(o) :
                  /\ o[k].op = "cx"
                  /\ o[k].clbits = <<>>
                  /\ Len(o[k].qubits) = 2
                  /\ o[k].qubits[1] \in 0..(n - 1)
                  /\ o[k].qubits[2] = n
                  /\ secret[n - o[k].qubits[1]] = "1"
            /\ \A i \in 0..(n - 1) :
                  secret[n - i] = "1"
                      => Cardinality({k \in 1..Len(o) : o[k] = CXGate(i, n)}) = 1
            /\ \A k \in 1..(Len(o) - 1) : o[k].qubits[1] < o[k + 1].qubits[1]
            /\ (\A j \in 1..n : secret[j] = "0") => o = <<>>
            /\ secret = <<"1", "0", "1">> => o = <<CXGate(0, 3), CXGate(2, 3)>>

\* The circuit of "101" has been built, its oracle between the barriers.
C4_Witness ==
    /\ pc = "built"
    /\ secret = <<"1", "0", "1">>
    /\ SubSeq(circuit.data, 7, 8) = <<CXGate(0, 3), CXGate(2, 3)>>

\* C5 (assembly order): barriers aside, the circuit is X on qubit n, H on
\* qubit n, H on qubits 0..n-1, the oracle's CX gates, H on qubits 0..n-1,
\* then the measurement of qubits 0..n-1 into classical bits 0..n-1; qubit n
\* is never measured and nothing but a measurement follows a measurement.
C5_AssemblyOrder ==
    pc \in BuiltPcs =>
        LET n == Len(secret)
            o == create_oracle(secret).data
            m == Len(o)
            g == NoBarriers(circuit.data)
        IN  /\ Len(g) = 2 + n + m + n + n
            /\ g[1] = XGate(n)
            /\ g[2] = HGate(n)
            /\ \A j \in 1..n : g[2 + j] = HGate(j - 1)
            /\ \A k \in 1..m : g[2 + n + k] = o[k]
            /\ \A j \in 1..n : g[2 + n + m + j] = HGate(j - 1)
            /\ \A j \in 1..n : g[2 + n + m + n + j] = Measure(j - 1, j - 1)
            /\ \A k \in 1..Len(circuit.data) :
                  circuit.data[k].op = "measure" =>
                      /\ circuit.data[k].qubits # <<n>>
                      /\ \A k2 \in (k + 1)..Len(circuit.data) :
                            circuit.data[k2].op = "measure"

\* The circuit of "101" has been built: 13 gates and measurements and the
\* two barriers.
C5_Witness ==
    /\ pc = "built"
    /\ secret = <<"1", "0", "1">>
    /\ Len(circuit.data) = 15
    /\ circuit.data[15] = Measure(2, 2)

\* C6 (no zero-probability outcome): every key counted is an outcome of the
\* distribution, and the counts returned for shots >= 1 are the single item
\* secret -> shots.
C6_NoZeroProbabilityOutcome ==
    /\ pc = "sampling" => Keys(counts) \subseteq Keys(dist)
    /\ (pc \in {"aggregate", "report"} /\ shots >= 1)
          => counts = << <<secret, shots>> >>

\* The demo run of "1111" with 1024 shots has returned {"1111": 1024}.
C6_Witness ==
    /\ pc = "report"
    /\ secret = <<"1", "1", "1", "1">>
    /\ counts = << <<secret, 1024>> >>

\* C7 (result aggregation): for any non-empty counts the string found is a
\* key whose count no other key's count exceeds, the items displayed are the
\* items of counts in non-increasing order of count, and success holds
\* exactly when the string found is the secret.
C7_ResultAggregation ==
    pc = "report" =>
        /\ found_string \in Keys(counts)
        /\ \A k \in 1..Len(counts) : counts[k][2] <= CountOf(counts, found_string)
        /\ Len(sorted_counts) = Len(counts)
        /\ {sorted_counts[k] : k \in 1..Len(sorted_counts)}
              = {counts[k] : k \in 1..Len(counts)}
        /\ \A k \in 1..(Len(sorted_counts) - 1) :
              sorted_counts[k][2] >= sorted_counts[k + 1][2]
        /\ success <=> (found_string = secret)

\* Counts of two keys, the larger count second and not on the secret, have
\* been reduced.
C7_Witness ==
    /\ pc = "report"
    /\ Len(counts) = 2
    /\ counts[1][2] < counts[2][2]
    /\ counts[1][1] = secret
    /\ found_string = counts[2][1]
    /\ sorted_counts = <<counts[2], counts[1]>>
    /\ ~success

\* C8 (normalization): from |0...0> on, after every instruction the
\* squared amplitudes sum to 1: the integer amplitudes' squares sum to
\* 2^hcount, each amplitude being divided by sqrt(2)^hcount.
C8_Normalization ==
    pc = "gates" =>
        /\ Len(psi) = Pow2(Len(secret) + 1)
        /\ SumSq(psi) = Pow2(hcount)

\* A ControlledNot has just been applied to a superposition.
C8_Witness ==
    /\ pc = "gates"
    /\ ip > 1
    /\ circuit.data[ip - 1].op = "cx"
    /\ hcount = Len(secret) + 1
    /\ SumSq(psi) = Pow2(hcount)

\* C9 (in-range indices): the circuit has n+1 qubits and n classical bits,
\* every instruction's qubits lie in 0..n and its classical bits in
\* 0..n-1, and every CX has its control in 0..n-1 and its target n.
C9_InRangeIndices ==
    pc \in BuiltPcs =>
        LET n == Len(secret)
        IN  /\ circuit.num_qubits = n + 1
            /\ circuit.num_clbits = n
            /\ create_oracle(secret).num_qubits = n + 1
            /\ \A k \in 1..Len(circuit.data) :
                  LET g == circuit.data[k]
                  IN  /\ \A j \in 1..Len(g.qubits) : g.qubits[j] \in 0..n
                      /\ \A j \in 1..Len(g.clbits) : g.clbits[j] \in 0..(n - 1)
                      /\ g.op = "cx" =>
                            /\ g.qubits[1] \in 0..(n - 1)
                            /\ g.qubits[2] = n
                            /\ g.qubits[1] # g.qubits[2]

\* The circuit of a secret of the default length whose first character is
\* '1' is being simulated: its last CX has control n-1.
C9_Witness ==
    /\ pc = "gates"
    /\ Len(secret) = DefaultLength
    /\ \E k \in 1..Len(circuit.data) :
          circuit.data[k] = CXGate(DefaultLength - 1, DefaultLength)

\* C10 (menu loop protocol), as claimed: the loop ends only by choice 4 and
\* no branch raises; an unrecognised choice or a refused secret leaves the
\* program at the menu with nothing run; choice 3 runs the examples in
\* order with 1024 shots each.
C10_MenuLoopProtocol ==
    /\ pc # "error"
    /\ pc = "exited" => choice = "4"
    /\ choice = "other" => (pc = "menu" /\ NoRun)
    /\ (choice = "1" /\ ~validate_binary_string(secret)) => (pc = "menu" /\ NoRun)
    /\ demo_idx \in 0..Len(examples)
    /\ demo_idx > 0 =>
          (choice = "3" /\ secret = examples[demo_idx] /\ shots = 1024)

====
